---- MODULE Spec2Model ----
(***************************************************************************)
(* Verification model of the trading-bot repository: the RiskEngine        *)
(* (app/exec/risk_engine.py), the OrderRouter (app/exec/order_router.py)    *)
(* and the PaperEngine loop (app/paper/engine.py).                          *)
(*                                                                         *)
(* Money is held in whole USD (integers).  A limit such as                  *)
(* equity * bps / 10_000 is kept multiplied by E4, so that every comparison *)
(* of the code is an exact integer comparison.  The only sub-dollar         *)
(* quantity the code compares is the 1e-9 tolerance of pre_trade_check: a   *)
(* requested risk is a pair [usd, sub], sub counting half nano-dollars.     *)
(***************************************************************************)
EXTENDS Integers, Sequences, FiniteSets, TLC

VARIABLES
    params,     \* RiskEngine.params  (RiskParams)
    rs,         \* RiskEngine.state   (RiskState)
    clock,      \* the last value time.time() returned
    ret,        \* what the last pre_trade_check call returned, and for which request
    lastOp,     \* the RiskEngine method that ran last
    nFills,     \* number of record_fill_pnl calls so far (bounded by MaxFills)
    hist,       \* history of the calls, for the temporal claims
    mode,       \* OrderRouter.mode
    orders,     \* OrderRouter._orders: order id -> Order
    nextUuid,   \* the number of uuid4() values drawn so far
    pm,         \* per caller: where its place_market call stands, and its locals
    audit,      \* per stored order: the submission it came from
    nSubmits,   \* number of place_market calls so far (bounded by MaxSubmits)
    ps,         \* PaperEngine.state (PaperState)
    prisk,      \* PaperEngine.risk  (RiskConfig)
    curTask,    \* PaperEngine._task: 0 for None, else the id of a loop task
    tasks,      \* the loop tasks created so far: position, locals, cancel request
    nTasks,     \* number of asyncio.create_task calls so far (bounded by MaxTasks)
    api,        \* per caller of the PaperEngine API: the call it is suspended in
    live,       \* main.py's globals _live_running and _live_flat
    http        \* per HTTP client: its request, pending or answered

riskVars == <<params, rs, ret, lastOp, nFills, hist>>

routerVars == <<mode, orders, nextUuid, pm, audit, nSubmits>>

paperVars == <<ps, prisk, curTask, tasks, nTasks, api>>

liveVars == <<live, http>>

vars == <<params, rs, clock, ret, lastOp, nFills, hist,
          mode, orders, nextUuid, pm, audit, nSubmits,
          ps, prisk, curTask, tasks, nTasks, api, live, http>>

----------------------------------------------------------------------------
(* Bounds of the model *)

MaxFills == 2
MaxClock == 1
MaxSubmits == 2
MaxTasks == 3
\* the loop tasks created in the runs that trade
MaxRuns == 2

\* the signal is evaluated on prices up to MaxMove steps of 0.1 USD above
\* 100.0 USD, against thresholds of up to MaxThr times 10 bps
MaxMove == 4
MaxThr == 3

(* Program constants *)

E4 == 10000
CAPITAL_BASE_USD == 10000
RISK_PER_TRADE_BPS == 50
DAILY_LOSS_CAP_BPS == 200
MAX_DRAWDOWN_BPS == 1000
MAX_LEVERAGE == 1
EPS_SUB == 2

(* Inputs *)

\* realized PnL of a fill, in USD: both sides of the daily-loss boundary (200)
\* and of the drawdown boundary (1000), and a gain
PnlDeltas == {-1001, -1000, -201, -200, 201}

\* est_risk_usd = usd + sub * 0.5e-9: at, just above (within 1e-9), and beyond
\* the default per-trade limit of 50 USD
EstRisks ==
    {[usd |-> 1, sub |-> 0], [usd |-> 50, sub |-> 0], [usd |-> 50, sub |-> 1],
     [usd |-> 50, sub |-> 3], [usd |-> 51, sub |-> 0]}

KillReasons == {"manual", "api_flat"}

Min(a, b) == IF a <= b THEN a ELSE b
Max(a, b) == IF a >= b THEN a ELSE b

\* time.time(): a reading never earlier than the previous one
TimeReads(c) == c .. Min(c + 1, MaxClock)

----------------------------------------------------------------------------
(* RiskEngine *)

DefaultParams ==
    [capital_base_usd   |-> CAPITAL_BASE_USD,
     risk_per_trade_bps |-> RISK_PER_TRADE_BPS,
     daily_loss_cap_bps |-> DAILY_LOSS_CAP_BPS,
     max_drawdown_bps   |-> MAX_DRAWDOWN_BPS,
     allow_leverage     |-> FALSE,
     max_leverage       |-> MAX_LEVERAGE]

\* RiskEngine.__init__: the state built from the capital base; KILL_SWITCH is
\* read from the environment
InitRiskState(p, now, envKill) ==
    [equity_start_usd       |-> p.capital_base_usd,
     equity_usd             |-> p.capital_base_usd,
     day_start_ts           |-> now,
     day_start_equity_usd   |-> p.capital_base_usd,
     realized_pnl_today_usd |-> 0,
     max_equity_usd         |-> p.capital_base_usd,
     min_equity_usd         |-> p.capital_base_usd,
     trading_halted         |-> FALSE,
     kill_switch            |-> envKill,
     halt_reason            |-> ""]

\* the three limits, each multiplied by E4
daily_loss_limit_usd(st, p) == st.day_start_equity_usd * p.daily_loss_cap_bps
max_drawdown_limit_usd(st, p) == st.equity_start_usd * p.max_drawdown_bps
allowed_risk_per_trade_usd(st, p) == st.equity_usd * p.risk_per_trade_bps

\* est_risk_usd > limit + 1e-9
RiskExceeded(est, st, p) ==
    LET limit == allowed_risk_per_trade_usd(st, p) IN
    \/ est.usd * E4 > limit
    \/ est.usd * E4 = limit /\ est.sub > EPS_SUB

\* realized_pnl_today_usd < -_daily_loss_limit_usd()
DailyLossBreached(st, p) ==
    st.realized_pnl_today_usd * E4 < -daily_loss_limit_usd(st, p)

\* equity_start_usd - equity_usd > _max_drawdown_limit_usd()
DrawdownBreached(st, p) ==
    (st.equity_start_usd - st.equity_usd) * E4 > max_drawdown_limit_usd(st, p)

\* a pre_trade_check that tests trading_halted before kill_switch
PreTradeCheck_HaltFirst(st, p, est) ==
    IF st.trading_halted
    THEN [ok |-> FALSE, reason |-> "Trading halted: " \o st.halt_reason]
    ELSE IF st.kill_switch
    THEN [ok |-> FALSE, reason |-> "KillSwitch active"]
    ELSE IF RiskExceeded(est, st, p)
    THEN [ok |-> FALSE, reason |-> "Risk per trade exceeded"]
    ELSE IF DailyLossBreached(st, p)
    THEN [ok |-> FALSE, reason |-> "Daily loss cap breached"]
    ELSE IF DrawdownBreached(st, p)
    THEN [ok |-> FALSE, reason |-> "Max drawdown breached"]
    ELSE [ok |-> TRUE, reason |-> "OK"]

\* a pre_trade_check without the pre-emptive drawdown test
PreTradeCheck_NoDrawdown(st, p, est) ==
    IF st.kill_switch
    THEN [ok |-> FALSE, reason |-> "KillSwitch active"]
    ELSE IF st.trading_halted
    THEN [ok |-> FALSE, reason |-> "Trading halted: " \o st.halt_reason]
    ELSE IF RiskExceeded(est, st, p)
    THEN [ok |-> FALSE, reason |-> "Risk per trade exceeded"]
    ELSE IF DailyLossBreached(st, p)
    THEN [ok |-> FALSE, reason |-> "Daily loss cap breached"]
    ELSE [ok |-> TRUE, reason |-> "OK"]

\* pre_trade_check: the (allowed, reason) pair.  The two amounts the code
\* formats into the "Risk per trade exceeded" text are left out of the reason.
PreTradeCheck(st, p, est) ==
    IF st.kill_switch
    THEN [ok |-> FALSE, reason |-> "KillSwitch active"]
    ELSE IF st.trading_halted
    THEN [ok |-> FALSE, reason |-> "Trading halted: " \o st.halt_reason]
    ELSE IF RiskExceeded(est, st, p)
    THEN [ok |-> FALSE, reason |-> "Risk per trade exceeded"]
    ELSE IF DailyLossBreached(st, p)
    THEN [ok |-> FALSE, reason |-> "Daily loss cap breached"]
    ELSE IF DrawdownBreached(st, p)
    THEN [ok |-> FALSE, reason |-> "Max drawdown breached"]
    ELSE [ok |-> TRUE, reason |-> "OK"]

\* a record_fill_pnl that does not halt on a daily-loss breach
AfterFill_NoLossHalt(st, p, d) ==
    LET s1 == [st EXCEPT !.equity_usd = @ + d,
                         !.realized_pnl_today_usd = @ + d]
        s2 == [s1 EXCEPT !.max_equity_usd = Max(@, s1.equity_usd),
                         !.min_equity_usd = Min(@, s1.equity_usd)]
    IN  IF DrawdownBreached(s2, p)
        THEN [s2 EXCEPT !.trading_halted = TRUE,
                        !.halt_reason = "Max drawdown breached"]
        ELSE s2

\* record_fill_pnl: the state after the call
AfterFill(st, p, d) ==
    LET s1 == [st EXCEPT !.equity_usd = @ + d,
                         !.realized_pnl_today_usd = @ + d]
        s2 == [s1 EXCEPT !.max_equity_usd = Max(@, s1.equity_usd),
                         !.min_equity_usd = Min(@, s1.equity_usd)]
        s3 == IF DailyLossBreached(s2, p)
              THEN [s2 EXCEPT !.trading_halted = TRUE,
                              !.halt_reason = "Daily loss cap breached"]
              ELSE s2
        s4 == IF DrawdownBreached(s3, p)
              THEN [s3 EXCEPT !.trading_halted = TRUE,
                              !.halt_reason = "Max drawdown breached"]
              ELSE s3
    IN  s4

\* a reset_daily that clears the kill switch as well
AfterReset_ClearsKill(st, now) ==
    [st EXCEPT !.day_start_ts = now,
               !.day_start_equity_usd = st.equity_usd,
               !.realized_pnl_today_usd = 0,
               !.trading_halted = FALSE,
               !.kill_switch = FALSE,
               !.halt_reason = ""]

\* reset_daily: the state after the call, the clock reading now
AfterReset(st, now) ==
    [st EXCEPT !.day_start_ts = now,
               !.day_start_equity_usd = st.equity_usd,
               !.realized_pnl_today_usd = 0,
               !.trading_halted = FALSE,
               !.halt_reason = ""]

\* set_kill_switch: the state after the call
AfterKillSwitch(st, active, reason) ==
    IF active
    THEN [st EXCEPT !.kill_switch = TRUE,
                    !.trading_halted = TRUE,
                    !.halt_reason = "KillSwitch: " \o reason]
    ELSE [st EXCEPT !.kill_switch = FALSE]

NoRet == [called |-> FALSE, est |-> [usd |-> 0, sub |-> 0],
          ok |-> FALSE, reason |-> ""]

NoHist == [killArmed |-> FALSE, offCalled |-> FALSE, resetCalled |-> FALSE,
           lossBreach |-> FALSE]

\* main.py's globals as the module sets them, and no request yet
NoLive == [running |-> FALSE, flat |-> FALSE]

NoHttp == [pc |-> "idle", kind |-> "", resp |-> ""]

\* the clients of the HTTP API
HttpClients == {"h1", "h2"}

LiveInit ==
    /\ live = NoLive
    /\ http = [c \in HttpClients |-> NoHttp]

RiskInit ==
    /\ LiveInit
    /\ params = DefaultParams
    /\ clock = 0
    /\ \E envKill \in BOOLEAN : rs = InitRiskState(params, clock, envKill)
    /\ ret = NoRet
    /\ lastOp = "init"
    /\ nFills = 0
    /\ hist = NoHist

pre_trade_check(est) ==
    LET r == PreTradeCheck(rs, params, est) IN
    /\ ret' = [called |-> TRUE, est |-> est, ok |-> r.ok, reason |-> r.reason]
    /\ lastOp' = "pre_trade_check"
    /\ UNCHANGED <<params, rs, clock, nFills, hist>>
    /\ UNCHANGED <<routerVars, paperVars, liveVars>>

record_fill_pnl(d) ==
    /\ nFills < MaxFills
    /\ rs' = AfterFill(rs, params, d)
    /\ nFills' = nFills + 1
    /\ hist' = [hist EXCEPT !.lossBreach = @ \/ DailyLossBreached(rs', params)]
    /\ lastOp' = "record_fill_pnl"
    /\ UNCHANGED <<params, clock, ret>>
    /\ UNCHANGED <<routerVars, paperVars, liveVars>>

reset_daily ==
    /\ \E now \in TimeReads(clock) :
          /\ clock' = now
          /\ rs' = AfterReset(rs, now)
    /\ hist' = [hist EXCEPT !.resetCalled = TRUE, !.lossBreach = FALSE]
    /\ lastOp' = "reset_daily"
    /\ UNCHANGED <<params, ret, nFills>>
    /\ UNCHANGED <<routerVars, paperVars, liveVars>>

set_kill_switch(active, reason) ==
    /\ rs' = AfterKillSwitch(rs, active, reason)
    /\ hist' = IF active
               THEN [hist EXCEPT !.killArmed = TRUE, !.offCalled = FALSE,
                                 !.resetCalled = FALSE]
               ELSE [hist EXCEPT !.offCalled = TRUE]
    /\ lastOp' = "set_kill_switch"
    /\ UNCHANGED <<params, clock, ret, nFills>>
    /\ UNCHANGED <<routerVars, paperVars, liveVars>>

----------------------------------------------------------------------------
(* OrderRouter *)

\* Optional[float] = None
None == -1

\* the callers of the router's public API
Clients == {"c1", "c2"}

\* symbols as the callers write them, one character per element
RawSymbols ==
    { <<"b", "t", "c", "-", "u", "s", "d", "t">>,
      <<"B", "T", "C", "/", "U", "S", "D", "T">> }

Sides == {"buy", "sell"}
Quantities == {1, 2}
IdemKeys == {"k1", "k2"}

\* the venue's last price, in units of 0.1 USD
VenuePrices == {1000, 1003}

\* str.upper, on the characters the symbols use
Upper(ch) ==
    CASE ch = "b" -> "B"
      [] ch = "t" -> "T"
      [] ch = "c" -> "C"
      [] ch = "u" -> "U"
      [] ch = "s" -> "S"
      [] ch = "d" -> "D"
      [] OTHER -> ch

RECURSIVE Remove(_, _)
\* str.replace(ch, "")
Remove(sym, ch) ==
    IF sym = <<>> THEN <<>>
    ELSE IF Head(sym) = ch THEN Remove(Tail(sym), ch)
    ELSE <<Head(sym)>> \o Remove(Tail(sym), ch)

\* symbol.upper().replace("-", "").replace("/", "")
normalize_symbol(symbol) ==
    Remove(Remove([i \in 1..Len(symbol) |-> Upper(symbol[i])], "-"), "/")

\* place_market marking the Order filled in live mode too
MarketOrder_FilledLive(id, symbol, side, quantity, px, now, m) ==
    [id              |-> id,
     symbol          |-> symbol,
     side            |-> side,
     type            |-> "market",
     quantity        |-> quantity,
     price           |-> None,
     status          |-> "filled",
     filled_quantity |-> IF m = "paper" THEN quantity ELSE 0,
     avg_fill_price  |-> IF m = "paper" THEN px ELSE None,
     ts_ms           |-> now,
     note            |-> IF m = "paper" THEN "paper fill" ELSE "None"]

\* the Order place_market builds
MarketOrder(id, symbol, side, quantity, px, now, m) ==
    [id              |-> id,
     symbol          |-> symbol,
     side            |-> side,
     type            |-> "market",
     quantity        |-> quantity,
     price           |-> None,
     status          |-> IF m = "paper" THEN "filled" ELSE "new",
     filled_quantity |-> IF m = "paper" THEN quantity ELSE 0,
     avg_fill_price  |-> IF m = "paper" THEN px ELSE None,
     ts_ms           |-> now,
     note            |-> IF m = "paper" THEN "paper fill" ELSE "None"]

NoOrder == MarketOrder(0, <<>>, "buy", 0, None, 0, "live")

NoRequest == [symbol |-> <<>>, side |-> "buy", quantity |-> 0, key |-> ""]

IdlePm == [pc |-> "idle", symbol |-> <<>>, side |-> "buy", quantity |-> 0,
           now |-> 0, req |-> NoRequest, denied |-> FALSE, result |-> NoOrder,
           kind |-> "market", price |-> None, id |-> 0]

\* self._orders[order.id] = order
Put(store, order) ==
    [i \in DOMAIN store \cup {order.id} |->
        IF i = order.id THEN order ELSE store[i]]

RouterInit ==
    /\ mode \in {"paper", "live"}
    /\ orders = << >>
    /\ nextUuid = 0
    /\ audit = << >>
    /\ nSubmits = 0

\* place_market up to its first suspension: the symbol is normalised, the
\* clock is read (now), and the call waits for _get_last_price.  key is the
\* caller's idempotency key; place_market has no parameter for it, and
\* it calls no method of the RiskEngine: denied records what
\* pre_trade_check would have answered to a request of zero risk.
PmBegin(c, symbol, side, quantity, key, now) ==
    [pm EXCEPT ![c] =
        [pc |-> "fetch", symbol |-> normalize_symbol(symbol),
         side |-> side, quantity |-> quantity, now |-> now,
         req |-> [symbol |-> symbol, side |-> side,
                  quantity |-> quantity, key |-> key],
         denied |-> ~PreTradeCheck(rs, params, [usd |-> 0, sub |-> 0]).ok,
         result |-> NoOrder,
         kind |-> "market", price |-> None, id |-> 0]]

PlaceMarketBegin(c, symbol, side, quantity, key) ==
    /\ pm[c].pc \in {"idle", "done", "raised"}
    /\ nSubmits < MaxSubmits
    /\ nSubmits' = nSubmits + 1
    /\ \E now \in TimeReads(clock) :
          /\ clock' = now
          /\ pm' = PmBegin(c, symbol, side, quantity, key, now)
    /\ UNCHANGED <<mode, orders, nextUuid, audit>>

\* the Order a returning place_market call builds for price px
PmOrder(c, px) ==
    MarketOrder(nextUuid + 1, pm[c].symbol, pm[c].side, pm[c].quantity,
                px, pm[c].now, mode)

\* _get_last_price returns px: the Order is built under a fresh uuid4 and
\* stored under the lock.  The lock is free whenever it is requested (its
\* holder never suspends), so acquiring it does not suspend the caller.
PlaceMarketStore(c, px) ==
    /\ pm[c].pc = "fetch"
    /\ LET id == nextUuid + 1
       IN  /\ nextUuid' = id
           /\ orders' = Put(orders, PmOrder(c, px))
           /\ audit' = [i \in DOMAIN audit \cup {id} |->
                          IF i = id
                          THEN [req |-> pm[c].req, denied |-> pm[c].denied,
                                by |-> c]
                          ELSE audit[i]]
    /\ UNCHANGED <<mode, nSubmits>>

\* ... and the Order is returned to the caller
PlaceMarketReturn(c, px) ==
    /\ PlaceMarketStore(c, px)
    /\ pm' = [pm EXCEPT ![c].pc = "done", ![c].result = PmOrder(c, px)]

\* _get_last_price raises (httpx error, raise_for_status): the exception
\* leaves place_market, nothing is stored
PlaceMarketRaise(c) ==
    /\ pm[c].pc = "fetch"
    /\ pm' = [pm EXCEPT ![c].pc = "raised"]
    /\ UNCHANGED <<mode, orders, nextUuid, audit, nSubmits>>

place_market_call(c, symbol, side, quantity, key) ==
    /\ PlaceMarketBegin(c, symbol, side, quantity, key)
    /\ UNCHANGED <<riskVars, paperVars, liveVars>>

place_market_return(c, px) ==
    /\ PlaceMarketReturn(c, px)
    /\ UNCHANGED <<riskVars, clock, paperVars, liveVars>>

place_market_raise(c) ==
    /\ PlaceMarketRaise(c)
    /\ UNCHANGED <<riskVars, clock, paperVars, liveVars>>

\* the limit prices of place_limit and place_oco_stub
LimitPrices == {1000, 1003}

\* place_limit filling only when the last price is strictly inside the limit
LimitOrder_Strict(id, symbol, side, quantity, price, last, now, m) ==
    LET should_fill == \/ side = "buy" /\ last < price
                       \/ side = "sell" /\ last > price
        fills == m = "paper" /\ should_fill
    IN  [id              |-> id,
         symbol          |-> symbol,
         side            |-> side,
         type            |-> "limit",
         quantity        |-> quantity,
         price           |-> price,
         status          |-> IF fills THEN "filled" ELSE "new",
         filled_quantity |-> IF fills THEN quantity ELSE 0,
         avg_fill_price  |-> IF fills THEN last ELSE None,
         ts_ms           |-> now,
         note            |-> IF fills THEN "paper limit immediate fill"
                             ELSE "None"]

\* the Order place_limit builds and, in paper mode with the limit in the
\* money at the last price, fills
LimitOrder(id, symbol, side, quantity, price, last, now, m) ==
    LET should_fill == \/ side = "buy" /\ last <= price
                       \/ side = "sell" /\ last >= price
        fills == m = "paper" /\ should_fill
    IN  [id              |-> id,
         symbol          |-> symbol,
         side            |-> side,
         type            |-> "limit",
         quantity        |-> quantity,
         price           |-> price,
         status          |-> IF fills THEN "filled" ELSE "new",
         filled_quantity |-> IF fills THEN quantity ELSE 0,
         avg_fill_price  |-> IF fills THEN last ELSE None,
         ts_ms           |-> now,
         note            |-> IF fills THEN "paper limit immediate fill"
                             ELSE "None"]

\* the Order place_oco_stub stores
OcoOrder(id, symbol, side, quantity, price, now) ==
    [id              |-> id,
     symbol          |-> symbol,
     side            |-> side,
     type            |-> "oco",
     quantity        |-> quantity,
     price           |-> price,
     status          |-> "new",
     filled_quantity |-> 0,
     avg_fill_price  |-> None,
     ts_ms           |-> now,
     note            |-> "OCO stub"]

\* the audit trail with the entry of the order stored under id for caller c
Audited(c, id) ==
    [i \in DOMAIN audit \cup {id} |->
        IF i = id
        THEN [req |-> pm[c].req, denied |-> pm[c].denied, by |-> c]
        ELSE audit[i]]

\* place_limit up to its first suspension: the symbol is normalised, the
\* clock is read, the Order gets its uuid4, and the call waits for
\* _get_last_price
place_limit_call(c, symbol, side, quantity, price) ==
    /\ pm[c].pc \in {"idle", "done", "raised"}
    /\ nSubmits < MaxSubmits
    /\ nSubmits' = nSubmits + 1
    /\ nextUuid' = nextUuid + 1
    /\ \E now \in TimeReads(clock) :
          /\ clock' = now
          /\ pm' = [PmBegin(c, symbol, side, quantity, "", now) EXCEPT
                       ![c].pc = "fetch_limit",
                       ![c].kind = "limit",
                       ![c].price = price,
                       ![c].id = nextUuid + 1]
    /\ UNCHANGED <<mode, orders, audit>>
    /\ UNCHANGED <<riskVars, paperVars, liveVars>>

\* _get_last_price returns last: the Order is filled or left new, stored
\* under the lock, and returned
place_limit_return(c, last) ==
    /\ pm[c].pc = "fetch_limit"
    /\ LET order == LimitOrder(pm[c].id, pm[c].symbol, pm[c].side,
                               pm[c].quantity, pm[c].price, last,
                               pm[c].now, mode)
       IN  /\ orders' = Put(orders, order)
           /\ audit' = Audited(c, pm[c].id)
           /\ pm' = [pm EXCEPT ![c].pc = "done", ![c].result = order]
    /\ UNCHANGED <<mode, nextUuid, nSubmits>>
    /\ UNCHANGED <<riskVars, clock, paperVars, liveVars>>

\* _get_last_price raises: nothing is stored
place_limit_raise(c) ==
    /\ pm[c].pc = "fetch_limit"
    /\ pm' = [pm EXCEPT ![c].pc = "raised"]
    /\ UNCHANGED <<mode, orders, nextUuid, audit, nSubmits>>
    /\ UNCHANGED <<riskVars, clock, paperVars, liveVars>>

\* place_oco_stub: one step, an Order of type oco is stored as new (the two
\* stop prices of the call are not stored)
place_oco_stub(c, symbol, side, quantity, price) ==
    /\ pm[c].pc \in {"idle", "done", "raised"}
    /\ nSubmits < MaxSubmits
    /\ nSubmits' = nSubmits + 1
    /\ nextUuid' = nextUuid + 1
    /\ \E now \in TimeReads(clock) :
          /\ clock' = now
          /\ LET order == OcoOrder(nextUuid + 1, normalize_symbol(symbol),
                                   side, quantity, price, now)
                 mine == PmBegin(c, symbol, side, quantity, "", now)[c]
             IN  /\ orders' = Put(orders, order)
                 /\ audit' = [i \in DOMAIN audit \cup {order.id} |->
                                IF i = order.id
                                THEN [req |-> mine.req, denied |-> mine.denied,
                                      by |-> c]
                                ELSE audit[i]]
                 /\ pm' = [pm EXCEPT ![c] = [mine EXCEPT !.pc = "done",
                                                         !.kind = "oco",
                                                         !.price = price,
                                                         !.id = order.id]]
    /\ UNCHANGED mode
    /\ UNCHANGED <<riskVars, paperVars, liveVars>>

\* what get_order returns: the stored Order, or None (NoOrder)
GetOrder(order_id) ==
    IF order_id \in DOMAIN orders THEN orders[order_id] ELSE NoOrder

\* what list_orders returns: the stored Orders
ListOrders == {orders[i] : i \in DOMAIN orders}

\* get_order: a read under the lock; the caller is handed GetOrder(order_id)
get_order(c, order_id) ==
    /\ pm[c].pc \in {"idle", "done", "raised"}
    /\ UNCHANGED vars

\* list_orders: a read under the lock; the caller is handed ListOrders
list_orders(c) ==
    /\ pm[c].pc \in {"idle", "done", "raised"}
    /\ UNCHANGED vars

----------------------------------------------------------------------------
(* PaperEngine.  Prices are in units of 0.1 USD, quantities in units of     *)
(* 0.001 coin, and cash, equity and the other ledger amounts in their       *)
(* product, 1e-4 USD; thresholds are in units of 0.1 bps.  RiskConfig keeps *)
(* its two USD amounts in whole USD.                                        *)

\* ledger units per USD
UsdUnits == 10000
\* 0.1-bps units per unit move: move_bps = (px - px_prev) / px_prev * 10_000
BpsUnits == 100000

\* the callers of the engine's API
Apis == {"a1", "a2"}

TaskIds == 1..MaxTasks

\* what the Price Source answers: a price, or None when unavailable
FeedPrices == {1000, 1003}

BTCUSDT == <<"B", "T", "C", "U", "S", "D", "T">>

\* the arguments of start
StartArgs ==
    {[symbol |-> BTCUSDT, interval_s |-> 1, threshold_bps |-> 200,
      trade_qty |-> 1],
     [symbol |-> BTCUSDT, interval_s |-> 1, threshold_bps |-> 500,
      trade_qty |-> 2]}

\* PaperState()
DefaultPaperState ==
    [running            |-> FALSE,
     symbol             |-> BTCUSDT,
     interval_s         |-> 1,
     threshold_bps      |-> 2,
     trade_qty          |-> 1,
     last_price         |-> None,
     last_ts_ms         |-> 0,
     position_qty       |-> 0,
     cash_usd           |-> 0,
     realized_pnl_usd   |-> 0,
     equity_usd         |-> 0,
     high_watermark_usd |-> 0,
     cum_day_loss_usd   |-> 0,
     start_equity_usd   |-> 0]

\* RiskConfig()
DefaultRiskConfig ==
    [capital_base_usd   |-> 10000,
     risk_per_trade_bps |-> 50,
     daily_loss_cap_bps |-> 200,
     max_drawdown_bps   |-> 1000,
     max_position_usd   |-> 5000,
     allow_leverage     |-> FALSE,
     max_leverage       |-> 1]

\* RiskConfig.daily_loss_cap_usd and max_drawdown_usd, in ledger units:
\* capital_base_usd * (bps / 10_000) USD
daily_loss_cap_usd(r) == r.capital_base_usd * r.daily_loss_cap_bps
max_drawdown_usd(r) == r.capital_base_usd * r.max_drawdown_bps

Abs(x) == IF x < 0 THEN -x ELSE x

\* x or y, for numbers
Or(x, y) == IF x # 0 THEN x ELSE y

\* a mark to market that leaves equity as it was last computed
update_equity_Stale(st, px) ==
    IF px = None THEN st
    ELSE IF st.start_equity_usd = 0
         THEN [st EXCEPT !.start_equity_usd = st.equity_usd,
                         !.high_watermark_usd = st.equity_usd]
         ELSE [st EXCEPT !.high_watermark_usd = Max(@, st.equity_usd)]

\* _update_equity
update_equity(st, px) ==
    IF px = None THEN st
    ELSE LET inventory == st.position_qty * px
             equity == st.cash_usd + st.realized_pnl_usd + inventory
             s1 == [st EXCEPT !.equity_usd = equity]
             s2 == IF s1.start_equity_usd = 0
                   THEN [s1 EXCEPT !.start_equity_usd = equity,
                                   !.high_watermark_usd = equity]
                   ELSE s1
         IN  [s2 EXCEPT !.high_watermark_usd = Max(@, equity)]

\* a risk gate without the cap on the position
risk_blocked_NoCap(st, r, next_side, px) ==
    IF px = None THEN "no_price"
    ELSE IF st.high_watermark_usd - st.equity_usd >= max_drawdown_usd(r)
         THEN "max_drawdown"
         ELSE IF st.cum_day_loss_usd <= -daily_loss_cap_usd(r)
         THEN "daily_loss_cap"
         ELSE "None"

\* _risk_blocked: the reason, or "None"
risk_blocked(st, r, next_side, px) ==
    IF px = None THEN "no_price"
    ELSE LET dd == st.high_watermark_usd - st.equity_usd
             next_pos == CASE next_side = "buy" -> st.position_qty + st.trade_qty
                           [] next_side = "sell" -> st.position_qty - st.trade_qty
                           [] OTHER -> st.position_qty
         IN  IF dd >= max_drawdown_usd(r) THEN "max_drawdown"
             ELSE IF st.cum_day_loss_usd <= -daily_loss_cap_usd(r)
             THEN "daily_loss_cap"
             ELSE IF Abs(next_pos * px) > r.max_position_usd * UsdUnits
             THEN "max_position"
             ELSE IF /\ ~r.allow_leverage
                     /\ st.equity_usd > 0
                     /\ Abs(next_pos * px) > st.equity_usd * r.max_leverage
             THEN "leverage"
             ELSE "None"

\* a start whose new PaperState starts from an empty ledger
NewPaperState_Fresh(st, r, a) ==
    [DefaultPaperState EXCEPT
        !.running = TRUE,
        !.symbol = a.symbol,
        !.interval_s = a.interval_s,
        !.threshold_bps = a.threshold_bps,
        !.trade_qty = a.trade_qty,
        !.high_watermark_usd = r.capital_base_usd * UsdUnits,
        !.start_equity_usd = r.capital_base_usd * UsdUnits]

\* the PaperState start builds: the loop parameters of the call, no price,
\* the ledger carried over from the state it replaces
NewPaperState(st, r, a) ==
    [running            |-> TRUE,
     symbol             |-> a.symbol,
     interval_s         |-> a.interval_s,
     threshold_bps      |-> a.threshold_bps,
     trade_qty          |-> a.trade_qty,
     last_price         |-> None,
     last_ts_ms         |-> 0,
     position_qty       |-> st.position_qty,
     cash_usd           |-> st.cash_usd,
     realized_pnl_usd   |-> st.realized_pnl_usd,
     equity_usd         |-> st.equity_usd,
     high_watermark_usd |-> Or(st.high_watermark_usd, r.capital_base_usd * UsdUnits),
     cum_day_loss_usd   |-> st.cum_day_loss_usd,
     start_equity_usd   |-> Or(st.start_equity_usd, r.capital_base_usd * UsdUnits)]

\* an accounting that books the cash at the last observed price and sets
\* cum_day_loss to the day's figure
ApplyFill_Drift(st, r, side, fill_px) ==
    LET s1 == IF side = "buy"
              THEN [st EXCEPT !.cash_usd = @ - st.last_price * st.trade_qty,
                              !.position_qty = @ + st.trade_qty]
              ELSE [st EXCEPT !.cash_usd = @ + st.last_price * st.trade_qty,
                              !.position_qty = @ - st.trade_qty]
        s2 == update_equity(s1, fill_px)
        dd_today == s2.equity_usd
                      - Or(s2.start_equity_usd, r.capital_base_usd * UsdUnits)
    IN  [s2 EXCEPT !.cum_day_loss_usd = dd_today]

\* the accounting of a fill at fill_px, the mark-to-market at fill_px and the
\* day-loss update
ApplyFill(st, r, side, fill_px) ==
    LET s1 == IF side = "buy"
              THEN [st EXCEPT !.cash_usd = @ - fill_px * st.trade_qty,
                              !.position_qty = @ + st.trade_qty]
              ELSE [st EXCEPT !.cash_usd = @ + fill_px * st.trade_qty,
                              !.position_qty = @ - st.trade_qty]
        s2 == update_equity(s1, fill_px)
        dd_today == s2.equity_usd
                      - Or(s2.start_equity_usd, r.capital_base_usd * UsdUnits)
    IN  [s2 EXCEPT !.cum_day_loss_usd = Min(@, dd_today)]

NoTask == [pc |-> "none", px_prev |-> None, px |-> None, side |-> "buy",
           reason |-> "unset", cancel |-> FALSE]

NoArgs == [symbol |-> BTCUSDT, interval_s |-> 0, threshold_bps |-> 0,
           trade_qty |-> 0]

IdleApi == [pc |-> "idle", on |-> 0, args |-> NoArgs, waited |-> FALSE,
            ret |-> DefaultPaperState]

\* start returns status(): the caller is handed the state as it is at the
\* return, and holds it until its next call; waited tells whether the call
\* had to wait for a running loop to end
Returned(st, waited) == [IdleApi EXCEPT !.ret = st, !.waited = waited]

\* a call is made by the first caller that is not inside one: callers that
\* are not inside a call do not differ
Free(a) ==
    /\ api[a].pc = "idle"
    /\ \A b \in Apis : api[b].pc = "idle" => a = b \/ a = "a1"

\* a task that has not finished
Alive(t) == tasks[t].pc \in {"created", "price", "venue", "sleep"}

\* Task.done()
TaskDone(t) == tasks[t].pc \in {"finished", "cancelled", "failed"}

PaperInit ==
    /\ ps = DefaultPaperState
    /\ prisk = DefaultRiskConfig
    /\ curTask = 0
    /\ tasks = [t \in TaskIds |-> NoTask]
    /\ nTasks = 0
    /\ api = [a \in Apis |-> IdleApi]

\* Task.cancel() on self._task: a request, delivered when the task next runs
CancelCurrent ==
    IF curTask # 0 /\ Alive(curTask)
    THEN [tasks EXCEPT ![curTask].cancel = TRUE]
    ELSE tasks

\* the rest of start, after the running loop (if any) has ended: the new
\* state, the new task, and the status returned
StartFinish(a, args) ==
    /\ nTasks < MaxTasks
    /\ ps' = NewPaperState(ps, prisk, args)
    /\ nTasks' = nTasks + 1
    /\ curTask' = nTasks + 1
    /\ api' = [api EXCEPT ![a] = Returned(ps', api[a].pc = "start_wait")]
    /\ UNCHANGED prisk

\* start, up to its first suspension.  With a loop task that is not done it
\* enters stop(): running is cleared, the task is asked to cancel, and the
\* call waits for the task.
start_call(a, args) ==
    /\ Free(a)
    /\ nTasks < MaxTasks
    /\ IF curTask # 0 /\ ~TaskDone(curTask)
       THEN /\ ps' = [ps EXCEPT !.running = FALSE]
            /\ tasks' = CancelCurrent
            /\ api' = [api EXCEPT ![a] = [IdleApi EXCEPT !.pc = "start_wait",
                                                         !.on = curTask,
                                                         !.args = args]]
            /\ UNCHANGED <<prisk, curTask, nTasks>>
       ELSE /\ StartFinish(a, args)
            /\ tasks' = [tasks EXCEPT ![nTasks + 1] = [NoTask EXCEPT !.pc = "created"]]
    /\ UNCHANGED <<riskVars, clock, routerVars, liveVars>>

\* the awaited task has ended (a task asked to cancel ends cancelled, and
\* stop swallows the CancelledError): start goes on
start_resume(a) ==
    /\ api[a].pc = "start_wait"
    /\ TaskDone(api[a].on)
    /\ StartFinish(a, api[a].args)
    /\ tasks' = [tasks EXCEPT ![nTasks + 1] = [NoTask EXCEPT !.pc = "created"]]
    /\ UNCHANGED <<riskVars, clock, routerVars, liveVars>>

\* stop, up to its first suspension; awaiting a task that is done does not
\* suspend, and re-raises the exception the task died of
stop_call(a) ==
    /\ Free(a)
    /\ ps' = [ps EXCEPT !.running = FALSE]
    /\ tasks' = CancelCurrent
    /\ api' = [api EXCEPT ![a] =
          IF curTask # 0 /\ ~TaskDone(curTask)
          THEN [IdleApi EXCEPT !.pc = "stop_wait", !.on = curTask]
          ELSE IdleApi]
    /\ UNCHANGED <<prisk, curTask, nTasks>>
    /\ UNCHANGED <<riskVars, clock, routerVars, liveVars>>

stop_resume(a) ==
    /\ api[a].pc = "stop_wait"
    /\ TaskDone(api[a].on)
    /\ api' = [api EXCEPT ![a] = IdleApi]
    /\ UNCHANGED <<ps, prisk, curTask, tasks, nTasks>>
    /\ UNCHANGED <<riskVars, clock, routerVars, liveVars>>

reset_accounting(a) ==
    /\ Free(a)
    /\ api' = [api EXCEPT ![a] = IdleApi]
    /\ ps' = [ps EXCEPT !.cash_usd = 0,
                        !.realized_pnl_usd = 0,
                        !.position_qty = 0,
                        !.start_equity_usd = 0,
                        !.high_watermark_usd = 0,
                        !.cum_day_loss_usd = 0,
                        !.equity_usd = 0]
    /\ UNCHANGED <<prisk, curTask, tasks, nTasks>>
    /\ UNCHANGED <<riskVars, clock, routerVars, liveVars>>

\* the payloads of set_risk: a cap of 0 USD on the position, a daily loss cap
\* of 200 % of the capital base, a key RiskConfig does not have
RiskPayloads ==
    {[max_position_usd |-> 0], [daily_loss_cap_bps |-> 20000], [bogus |-> 1]}

\* setattr for every key of the payload that RiskConfig has
SetRisk(r, payload) ==
    [k \in DOMAIN r |-> IF k \in DOMAIN payload THEN payload[k] ELSE r[k]]

set_risk(a, payload) ==
    /\ Free(a)
    /\ api' = [api EXCEPT ![a] = IdleApi]
    /\ prisk' = SetRisk(prisk, payload)
    /\ UNCHANGED <<ps, curTask, tasks, nTasks>>
    /\ UNCHANGED <<riskVars, clock, routerVars, liveVars>>

\* status(): what a caller is shown, the state and the risk configuration
Status == [ok |-> TRUE, state |-> ps, risk |-> prisk]

\* status only reads; what it returns is recorded for start alone
status(a) ==
    /\ Free(a)
    /\ api' = [api EXCEPT ![a] = IdleApi]
    /\ UNCHANGED <<ps, prisk, curTask, tasks, nTasks>>
    /\ UNCHANGED <<riskVars, clock, routerVars, liveVars>>

\* `while self.state.running:` followed by the call of feed.get_price
LoopTop(st) == IF st.running THEN "price" ELSE "finished"

\* the end of a tick: px_prev = px, then the sleep when dt > 0 (the time the
\* tick took is the environment's), else the next pass of the while loop
EndTick(t, st, px, sleeps) ==
    IF ~sleeps /\ ~st.running
    THEN [tasks EXCEPT ![t] = [NoTask EXCEPT !.pc = "finished"]]
    ELSE [tasks EXCEPT ![t] = [NoTask EXCEPT !.px_prev = px,
                                             !.pc = IF sleeps THEN "sleep"
                                                    ELSE "price"]]

\* the local `reason` as the tick that has just ended left it: what
\* _risk_blocked answered, "unset" when the tick had no candidate side
Noted(t, ts, reason) ==
    IF ts[t].pc = "finished" THEN ts ELSE [ts EXCEPT ![t].reason = reason]

\* the signal of a tick: with a price and a previous price, a move of at
\* least the threshold makes a candidate side, "sell" when the move is
\* positive and "buy" when it is not; "none" stands for no candidate
Signal(px, px_prev, threshold_bps) ==
    LET move == (px - px_prev) * BpsUnits
    IN  IF px = None \/ px_prev = None THEN "none"
        ELSE IF Abs(move) >= threshold_bps * px_prev
             THEN IF move > 0 THEN "sell" ELSE "buy"
             ELSE "none"

\* the task runs for the first time
loop_begin(t) ==
    /\ tasks[t].pc = "created"
    /\ ~tasks[t].cancel
    /\ tasks' = [tasks EXCEPT ![t].pc = LoopTop(ps)]
    /\ UNCHANGED <<ps, prisk, curTask, nTasks, api>>
    /\ UNCHANGED <<riskVars, clock, routerVars, liveVars>>

\* a tick that places the order of every candidate side, blocked or not
loop_price_IgnoresGate(t, px) ==
    /\ tasks[t].pc = "price"
    /\ ~tasks[t].cancel
    /\ \E now_ms \in TimeReads(clock) :
        LET s1 == update_equity([ps EXCEPT !.last_price = px,
                                           !.last_ts_ms = now_ms], px)
            side == Signal(px, tasks[t].px_prev, s1.threshold_bps)
        IN  /\ ps' = s1
            /\ clock' = now_ms
            /\ IF side # "none"
               THEN /\ pm[t].pc \in {"idle", "raised"}
                    /\ nSubmits < MaxSubmits
                    /\ nSubmits' = nSubmits + 1
                    /\ pm' = PmBegin(t, s1.symbol, side, s1.trade_qty, "", now_ms)
                    /\ tasks' = [tasks EXCEPT ![t].pc = "venue",
                                              ![t].px = px,
                                              ![t].side = side,
                                              ![t].reason = "None"]
               ELSE /\ \E sleeps \in BOOLEAN :
                          tasks' = EndTick(t, s1, px, sleeps)
                    /\ UNCHANGED <<pm, nSubmits>>
    /\ UNCHANGED <<prisk, curTask, nTasks, api>>
    /\ UNCHANGED <<riskVars, mode, orders, nextUuid, audit, liveVars>>

\* feed.get_price answers px: mark to market, signal, risk gate; either the
\* tick ends here or place_market is called and the task waits for the venue.
\* Nothing suspends between the loop's reading of the clock and
\* place_market's: at the clock's grain the two readings are one.
loop_price(t, px) ==
    /\ tasks[t].pc = "price"
    /\ ~tasks[t].cancel
    /\ \E now_ms \in TimeReads(clock) :
        LET s1 == update_equity([ps EXCEPT !.last_price = px,
                                           !.last_ts_ms = now_ms], px)
            side == Signal(px, tasks[t].px_prev, s1.threshold_bps)
            reason == IF side = "none" THEN "unset"
                      ELSE risk_blocked(s1, prisk, side, px)
            trades == reason = "None"
        IN  /\ ps' = s1
            /\ IF trades
               THEN /\ pm[t].pc \in {"idle", "raised"}
                    /\ nSubmits < MaxSubmits
                    /\ nSubmits' = nSubmits + 1
                    /\ clock' = now_ms
                    /\ pm' = PmBegin(t, s1.symbol, side, s1.trade_qty, "", now_ms)
                    /\ tasks' = [tasks EXCEPT ![t].pc = "venue",
                                              ![t].px = px,
                                              ![t].side = side,
                                              ![t].reason = reason]
               ELSE /\ clock' = now_ms
                    /\ \E sleeps \in BOOLEAN :
                          tasks' = Noted(t, EndTick(t, s1, px, sleeps), reason)
                    /\ UNCHANGED <<pm, nSubmits>>
    /\ UNCHANGED <<prisk, curTask, nTasks, api>>
    /\ UNCHANGED <<riskVars, mode, orders, nextUuid, audit, liveVars>>

\* place_market returns the stored order: accounting, then the end of the tick
loop_venue_return(t, vpx) ==
    /\ tasks[t].pc = "venue"
    /\ ~tasks[t].cancel
    /\ PlaceMarketStore(t, vpx)
    /\ pm' = [pm EXCEPT ![t] = IdlePm]
    /\ LET o == PmOrder(t, vpx)
           fill_px == IF o.avg_fill_price = None \/ o.avg_fill_price = 0
                      THEN tasks[t].px ELSE o.avg_fill_price
           s1 == ApplyFill(ps, prisk, tasks[t].side, fill_px)
       IN  /\ ps' = s1
           /\ \E sleeps \in BOOLEAN : tasks' = EndTick(t, s1, tasks[t].px, sleeps)
    /\ UNCHANGED <<prisk, curTask, nTasks, api>>
    /\ UNCHANGED <<riskVars, clock, liveVars>>

\* place_market raises: nothing in _loop catches it, the task dies
loop_venue_raise(t) ==
    /\ tasks[t].pc = "venue"
    /\ ~tasks[t].cancel
    /\ PlaceMarketRaise(t)
    /\ tasks' = [tasks EXCEPT ![t] = [NoTask EXCEPT !.pc = "failed"]]
    /\ UNCHANGED <<ps, prisk, curTask, nTasks, api>>
    /\ UNCHANGED <<riskVars, clock, liveVars>>

\* asyncio.sleep(dt) is over
loop_wake(t) ==
    /\ tasks[t].pc = "sleep"
    /\ ~tasks[t].cancel
    /\ tasks' = IF ps.running
                THEN [tasks EXCEPT ![t].pc = "price"]
                ELSE [tasks EXCEPT ![t] = [NoTask EXCEPT !.pc = "finished"]]
    /\ UNCHANGED <<ps, prisk, curTask, nTasks, api>>
    /\ UNCHANGED <<riskVars, clock, routerVars, liveVars>>

\* the cancel request reaches the task where it is suspended: CancelledError
\* is raised there, whatever the awaited call had answered, and ends the task
loop_cancelled(t) ==
    /\ Alive(t)
    /\ tasks[t].cancel
    /\ tasks' = [tasks EXCEPT ![t] = [NoTask EXCEPT !.pc = "cancelled"]]
    /\ pm' = IF tasks[t].pc = "venue" THEN [pm EXCEPT ![t] = IdlePm] ELSE pm
    /\ UNCHANGED <<ps, prisk, curTask, nTasks, api>>
    /\ UNCHANGED <<riskVars, clock, mode, orders, nextUuid, audit, nSubmits, liveVars>>

PaperNext ==
    \/ \E a \in Apis, args \in StartArgs :
          nTasks < MaxRuns /\ start_call(a, args)
    \/ \E a \in Apis : nTasks < MaxRuns /\ start_resume(a)
    \/ \E a \in Apis : stop_call(a)
    \/ \E a \in Apis : stop_resume(a)
    \/ \E a \in Apis : reset_accounting(a)
    \/ \E t \in TaskIds : loop_begin(t)
    \/ \E t \in TaskIds, px \in FeedPrices \cup {None} : loop_price(t, px)
    \/ \E t \in TaskIds, vpx \in VenuePrices : loop_venue_return(t, vpx)
    \/ \E t \in TaskIds : loop_venue_raise(t)
    \/ \E t \in TaskIds : loop_wake(t)
    \/ \E t \in TaskIds : loop_cancelled(t)

PaperSpecInit ==
    /\ RiskInit
    /\ ~rs.kill_switch
    /\ RouterInit
    /\ pm = [t \in TaskIds |-> IdlePm]
    /\ PaperInit

\* the engine with its router and its loop tasks
SpecPaper == PaperSpecInit /\ [][PaperNext]_vars

\* the callers only start and stop the engine: the ledger is never reset,
\* and the drawdown from the capital base the high watermark is seeded with
\* keeps the risk gate shut, so no order is placed
LoopsNext ==
    \/ \E a \in Apis, args \in StartArgs : start_call(a, args)
    \/ \E a \in Apis : start_resume(a)
    \/ \E a \in Apis : stop_call(a)
    \/ \E a \in Apis : stop_resume(a)
    \/ \E t \in TaskIds : loop_begin(t)
    \/ \E t \in TaskIds, px \in FeedPrices \cup {None} : loop_price(t, px)
    \/ \E t \in TaskIds : loop_wake(t)
    \/ \E t \in TaskIds : loop_cancelled(t)

\* the engine under concurrent start and stop calls
SpecLoops == PaperSpecInit /\ [][LoopsNext]_vars

\* the order store under every operation of the router, for one symbol
OrdersNext ==
    \/ \E c \in Clients, side \in Sides, quantity \in Quantities :
            place_market_call(c, BTCUSDT, side, quantity, "")
    \/ \E c \in Clients, px \in VenuePrices : place_market_return(c, px)
    \/ \E c \in Clients : place_market_raise(c)
    \/ \E c \in Clients, side \in Sides, quantity \in Quantities,
          price \in LimitPrices :
            place_limit_call(c, BTCUSDT, side, quantity, price)
    \/ \E c \in Clients, last \in VenuePrices : place_limit_return(c, last)
    \/ \E c \in Clients : place_limit_raise(c)
    \/ \E c \in Clients, side \in Sides, quantity \in Quantities,
          price \in LimitPrices :
            place_oco_stub(c, BTCUSDT, side, quantity, price)
    \/ \E c \in Clients, order_id \in 1..MaxSubmits : get_order(c, order_id)
    \/ \E c \in Clients : list_orders(c)

RouterNext ==
    \/ \E c \in Clients, symbol \in RawSymbols, side \in Sides,
          quantity \in Quantities, key \in IdemKeys :
            place_market_call(c, symbol, side, quantity, key)
    \/ \E c \in Clients, px \in VenuePrices : place_market_return(c, px)
    \/ \E c \in Clients : place_market_raise(c)
    \/ \E active \in BOOLEAN : set_kill_switch(active, "api_flat")

RouterSpecInit ==
    /\ RiskInit
    /\ RouterInit
    /\ pm = [c \in Clients |-> IdlePm]
    /\ PaperInit

\* the router beside the process-wide RiskEngine and its kill switch
SpecRouter == RouterSpecInit /\ [][RouterNext]_vars

\* the router's order store under all its operations
OrdersSpecInit ==
    /\ RouterSpecInit
    /\ ~rs.kill_switch

SpecOrders == OrdersSpecInit /\ [][OrdersNext]_vars


RiskNext ==
    \/ \E est \in EstRisks : pre_trade_check(est)
    \/ \E d \in PnlDeltas : record_fill_pnl(d)
    \/ reset_daily
    \/ \E active \in BOOLEAN, reason \in KillReasons : set_kill_switch(active, reason)

RiskSpecInit ==
    /\ RiskInit
    /\ RouterInit
    /\ mode = "paper"
    /\ pm = [c \in Clients |-> IdlePm]
    /\ PaperInit

SpecRisk == RiskSpecInit /\ [][RiskNext]_vars

----------------------------------------------------------------------------
(* Claims about the RiskEngine, checked under SpecRisk *)

\* the deny reasons of the contract, in its order, as (condition, reason)
\* pairs; riskCond is the per-trade condition
C3_Conds(st, p, riskCond) ==
    << <<st.kill_switch, "KillSwitch active">>,
       <<st.trading_halted, "Trading halted: " \o st.halt_reason>>,
       <<riskCond, "Risk per trade exceeded">>,
       <<st.realized_pnl_today_usd * E4
            < -(p.daily_loss_cap_bps * st.day_start_equity_usd),
         "Daily loss cap breached">>,
       <<(st.equity_start_usd - st.equity_usd) * E4
            > p.max_drawdown_bps * st.equity_start_usd,
         "Max drawdown breached">> >>

\* the reason of the first condition that holds; allow when none holds
C3_Verdict(conds) ==
    IF \E i \in 1..5 : conds[i][1]
    THEN LET i == CHOOSE k \in 1..5 :
                     conds[k][1] /\ \A j \in 1..(k - 1) : ~conds[j][1]
         IN  [ok |-> FALSE, reason |-> conds[i][2]]
    ELSE [ok |-> TRUE, reason |-> "OK"]

\* est_risk > equity x risk_per_trade fraction, with no tolerance
C3_OverLimit(est, st, p) ==
    \/ est.usd * E4 > st.equity_usd * p.risk_per_trade_bps
    \/ est.usd * E4 = st.equity_usd * p.risk_per_trade_bps /\ est.sub > 0

\* est_risk > equity x risk_per_trade fraction + 1e-9
C3_OverLimitTol(est, st, p) ==
    \/ est.usd * E4 > st.equity_usd * p.risk_per_trade_bps
    \/ est.usd * E4 = st.equity_usd * p.risk_per_trade_bps /\ est.sub > 2

\* C3 as stated: every pre_trade_check call returns the reason of the first
\* of the five conditions that holds, condition (3) being
\* est_risk > equity x risk_per_trade fraction, allows exactly when none
\* holds, and leaves RiskState unchanged.
C3_AsStated ==
    [][\A est \in EstRisks : pre_trade_check(est) =>
          /\ rs' = rs
          /\ [ok |-> ret'.ok, reason |-> ret'.reason]
                = C3_Verdict(C3_Conds(rs, params, C3_OverLimit(est, rs, params)))]_vars

\* C3 amended: the same, condition (3) being
\* est_risk > equity x risk_per_trade fraction + 1e-9: a request that exceeds
\* the limit by no more than 1e-9 passes check (3).
C3_PrecedenceWithTolerance ==
    [][\A est \in EstRisks : pre_trade_check(est) =>
          /\ rs' = rs
          /\ [ok |-> ret'.ok, reason |-> ret'.reason]
                = C3_Verdict(C3_Conds(rs, params, C3_OverLimitTol(est, rs, params)))]_vars

\* a call whose request exceeds the per-trade limit by half of 1e-9 was allowed
C3_Witness ==
    /\ lastOp = "pre_trade_check"
    /\ ret.est.usd * E4 = rs.equity_usd * params.risk_per_trade_bps
    /\ ret.est.sub = 1
    /\ ret.ok

KillSwitchTexts ==
    {"KillSwitch active"}
        \cup {"Trading halted: KillSwitch: " \o r : r \in KillReasons}

\* C4: after set_kill_switch(true), until both set_kill_switch(false) and
\* reset_daily have been called, every pre_trade_check denies with a
\* kill-switch reason.
C4_KillSwitchReasonUntilBothCleared ==
    (/\ lastOp = "pre_trade_check"
     /\ hist.killArmed
     /\ ~(hist.offCalled /\ hist.resetCalled))
        => ~ret.ok /\ ret.reason \in KillSwitchTexts

DailyLossTexts ==
    {"Daily loss cap breached", "Trading halted: Daily loss cap breached"}

\* C5 as stated: once realized_pnl_today has been below minus the daily loss
\* cap, every pre_trade_check until reset_daily denies and its reason names
\* the daily loss cap.
C5_AsStated ==
    (lastOp = "pre_trade_check" /\ hist.lossBreach)
        => ~ret.ok /\ ret.reason \in DailyLossTexts

\* C5 amended: once realized_pnl_today has been below minus the daily loss
\* cap, every pre_trade_check until reset_daily denies, for every requested
\* risk; the reason is the kill-switch text while the kill switch is on and
\* otherwise reports the stored halt reason, so it names the daily loss cap
\* as long as no kill switch and no drawdown halt has replaced that reason.
C5_DeniedUntilReset ==
    (lastOp = "pre_trade_check" /\ hist.lossBreach)
        => /\ ~ret.ok
           /\ ret.reason = IF rs.kill_switch
                           THEN "KillSwitch active"
                           ELSE "Trading halted: " \o rs.halt_reason
           /\ (~rs.kill_switch /\ rs.halt_reason = "Daily loss cap breached")
                 => ret.reason \in DailyLossTexts

\* losses of 201 on the 10,000 base; a request of 1 unit was denied for the
\* daily loss cap
C5_Witness ==
    /\ lastOp = "pre_trade_check"
    /\ hist.lossBreach
    /\ rs.realized_pnl_today_usd = -201
    /\ rs.day_start_equity_usd = CAPITAL_BASE_USD
    /\ ret.est = [usd |-> 1, sub |-> 0]
    /\ ~ret.ok
    /\ ret.reason = "Trading halted: Daily loss cap breached"

C6_InDrawdown(st, p) ==
    (st.equity_start_usd - st.equity_usd) * E4
        > p.max_drawdown_bps * st.equity_start_usd

DrawdownTexts ==
    {"Max drawdown breached", "Trading halted: Max drawdown breached"}

\* C6 as stated: in every state in drawdown breach, pre_trade_check denies
\* and the reason names max drawdown whatever the requested risk.
C6_AsStated ==
    (lastOp = "pre_trade_check" /\ C6_InDrawdown(rs, params))
        => ~ret.ok /\ ret.reason \in DrawdownTexts

\* C6 amended: in every state in drawdown breach, pre_trade_check denies for
\* every requested risk; the reason names max drawdown exactly when no
\* earlier check answers first: the kill switch is off, and either trading is
\* halted with the stored reason "Max drawdown breached", or trading is not
\* halted, the requested risk is within the per-trade limit (plus 1e-9) and
\* the daily loss cap is not breached.
C6_DeniedInDrawdown ==
    (lastOp = "pre_trade_check" /\ C6_InDrawdown(rs, params))
        => /\ ~ret.ok
           /\ ret.reason \in DrawdownTexts
                 <=> /\ ~rs.kill_switch
                     /\ IF rs.trading_halted
                        THEN rs.halt_reason = "Max drawdown breached"
                        ELSE /\ ~C3_OverLimitTol(ret.est, rs, params)
                             /\ ~(rs.realized_pnl_today_usd * E4
                                    < -(params.daily_loss_cap_bps
                                          * rs.day_start_equity_usd))

\* after a reset_daily, still in drawdown and not halted: a small request was
\* denied by the pre-emptive drawdown check
C6_Witness ==
    /\ lastOp = "pre_trade_check"
    /\ C6_InDrawdown(rs, params)
    /\ hist.resetCalled
    /\ ~rs.trading_halted
    /\ ~rs.kill_switch
    /\ ret.est = [usd |-> 1, sub |-> 0]
    /\ ~ret.ok
    /\ ret.reason = "Max drawdown breached"

\* C7: in every reachable RiskState, kill_switch implies trading_halted.
C7_KillSwitchImpliesHalted ==
    rs.kill_switch => rs.trading_halted

\* C8: a record_fill_pnl call made while trading_halted is already true
\* leaves halt_reason as it was, for every PnL delta.
C8_HaltReasonSticky ==
    [][\A d \in PnlDeltas :
          (record_fill_pnl(d) /\ rs.trading_halted)
              => rs'.halt_reason = rs.halt_reason]_vars

\* C9: reset_daily sets day_start_equity to the current equity,
\* realized_pnl_today to 0, trading_halted to false and halt_reason to
\* empty, and leaves kill_switch, equity, equity_start, max_equity,
\* min_equity and the RiskParams unchanged; kill_switch goes from true to
\* false only in a set_kill_switch(false) call.
C9_ResetDailyFrame ==
    [][/\ reset_daily
            => /\ rs'.day_start_equity_usd = rs.equity_usd
               /\ rs'.realized_pnl_today_usd = 0
               /\ rs'.trading_halted = FALSE
               /\ rs'.halt_reason = ""
               /\ rs'.kill_switch = rs.kill_switch
               /\ rs'.equity_usd = rs.equity_usd
               /\ rs'.equity_start_usd = rs.equity_start_usd
               /\ rs'.max_equity_usd = rs.max_equity_usd
               /\ rs'.min_equity_usd = rs.min_equity_usd
               /\ params' = params
       /\ (rs.kill_switch /\ ~rs'.kill_switch)
            => \E reason \in KillReasons : set_kill_switch(FALSE, reason)]_vars

\* a reset_daily ran on a halted engine with the kill switch on and a loss
\* on the day
C9_Witness ==
    /\ lastOp = "reset_daily"
    /\ rs.kill_switch
    /\ ~rs.trading_halted
    /\ rs.halt_reason = ""
    /\ rs.equity_usd = CAPITAL_BASE_USD - 201
    /\ rs.day_start_equity_usd = rs.equity_usd
    /\ rs.realized_pnl_today_usd = 0

----------------------------------------------------------------------------
(* Claims about the OrderRouter, checked under SpecRouter *)

\* C1: two completed submissions of the same (symbol, side, quantity,
\* idempotency_key), one after the other or overlapping, return the
\* identical order (same id, status and fill), and the store holds exactly
\* one order for that tuple: the order is executed once.
C1_IdempotentReplay ==
    \A c1, c2 \in Clients :
        (/\ c1 # c2
         /\ pm[c1].pc = "done"
         /\ pm[c2].pc = "done"
         /\ pm[c1].req = pm[c2].req)
            => /\ pm[c1].result = pm[c2].result
               /\ Cardinality({i \in DOMAIN orders :
                                  audit[i].req = pm[c1].req}) = 1

\* C2: no stored order is filled on a submission that pre_trade_check
\* denies: a submission made while the RiskEngine denies (kill switch on,
\* trading halted) is rejected and never recorded as filled.
C2_RiskGateNotBypassed ==
    \A i \in DOMAIN orders :
        orders[i].status = "filled" => ~audit[i].denied

----------------------------------------------------------------------------
(* PaperEngine.start                                                        *)

\* the loop task of the engine has not ended
LoopAlive == curTask # 0 /\ ~TaskDone(curTask)

\* the loop parameters of a PaperState
LoopParams(st) ==
    [symbol |-> st.symbol, interval_s |-> st.interval_s,
     threshold_bps |-> st.threshold_bps, trade_qty |-> st.trade_qty]

\* the ledger fields start copies as they are
Carried(st) ==
    <<st.position_qty, st.cash_usd, st.realized_pnl_usd, st.equity_usd,
      st.cum_day_loss_usd>>

\* C10 as stated: start while the loop is running is a no-op: the loop task
\* is neither cancelled nor replaced, the loop parameters and the ledger are
\* unchanged, and the call returns the current state.
C10_AsStated ==
    [][\A a \in Apis, args \in StartArgs :
         start_call(a, args) /\ ps.running /\ LoopAlive =>
            /\ tasks' = tasks
            /\ curTask' = curTask
            /\ ps' = ps
            /\ api'[a].pc = "idle"
            /\ api'[a].ret = ps]_vars

\* C10 amended: start while the loop task is alive restarts the loop.  The
\* call first stops the running loop (running is cleared, the task is asked
\* to cancel, nothing else changes) and waits for it; once the old task has
\* ended, cancelled, the call installs a state with its own loop parameters,
\* running set, no last price, and the ledger of the state it replaces
\* (high watermark and start equity falling back to the capital base when
\* they are 0), puts a new task in the place of the old one, and returns
\* the new state.
C10_StartRestarts ==
    [][\A a \in Apis :
         /\ \A args \in StartArgs :
               start_call(a, args) /\ LoopAlive =>
                  /\ ~ps'.running
                  /\ tasks'[curTask].cancel
                  /\ ps' = [ps EXCEPT !.running = FALSE]
                  /\ curTask' = curTask
                  /\ api'[a].pc = "start_wait"
         /\ start_resume(a) =>
               /\ tasks[api[a].on].pc = "cancelled"
               /\ ps'.running
               /\ LoopParams(ps') = api[a].args
               /\ ps'.last_price = None
               /\ Carried(ps') = Carried(ps)
               /\ ps'.high_watermark_usd =
                     Or(ps.high_watermark_usd, prisk.capital_base_usd * UsdUnits)
               /\ ps'.start_equity_usd =
                     Or(ps.start_equity_usd, prisk.capital_base_usd * UsdUnits)
               /\ curTask' \notin {0, curTask, api[a].on}
               /\ tasks[curTask'].pc = "none"
               /\ tasks'[curTask'].pc = "created"
               /\ api'[a].pc = "idle"
               /\ api'[a].ret = ps']_vars

\* a restart has just returned: the first loop task ended cancelled, the
\* second has not run yet, and the state the call returned has the new
\* parameters and the open position of the run it replaced
C10_Witness ==
    /\ curTask = 2
    /\ tasks[1].pc = "cancelled"
    /\ tasks[2].pc = "created"
    /\ ps.running
    /\ ps.position_qty # 0
    /\ ps.threshold_bps = 500
    /\ \E a \in Apis : api[a].pc = "idle" /\ api[a].waited /\ api[a].ret = ps
----------------------------------------------------------------------------
(* Concurrent start and stop                                                *)

\* C11: whatever the interleaving of start and stop calls, the only loop
\* task that is alive is the engine's current task: at most one loop ticks,
\* and none goes on after it has been replaced.
C11_OnlyCurrentLoopAlive ==
    \A t \in TaskIds : Alive(t) => t = curTask

\* C12: stop never kills a tick in mid-execution: a tick that is suspended
\* in the venue call (after its price read, before its accounting) is not
\* ended by cancellation; it goes on to record the venue's result.
C12_TickNotKilled ==
    [][\A t \in TaskIds :
         tasks[t].pc = "venue" => tasks'[t].pc # "cancelled"]_vars

\* the change of position a filled order of the given side makes
Signed(side, q) == IF side = "buy" THEN q ELSE -q

\* a step in which a stop call returns a status to its caller
StopReturns(a) ==
    \/ stop_resume(a)
    \/ /\ stop_call(a)
       /\ api'[a].pc = "idle"
       /\ ~(curTask # 0 /\ tasks[curTask].pc = "failed")

\* after stop returns, running is false and the loop task has terminated
C13_StoppedAtReturn ==
    \A a \in Apis :
        StopReturns(a) =>
            /\ ~ps'.running
            /\ curTask' # 0 =>
                 tasks'[curTask'].pc \in {"finished", "cancelled", "failed"}

\* between two observable states a fill is applied whole: cash and position
\* change together (reset_accounting aside), and the step that stores a
\* filled order is the step that applies its fill to the ledger
C13_FillsWhole ==
    /\ (\A a \in Apis : ~reset_accounting(a)) =>
          (ps'.cash_usd = ps.cash_usd <=> ps'.position_qty = ps.position_qty)
    /\ (nextUuid' # nextUuid /\ orders'[nextUuid'].status = "filled") =>
          LET o == orders'[nextUuid'] IN
          /\ ps'.position_qty = ps.position_qty + Signed(o.side, o.filled_quantity)
          /\ ps'.cash_usd =
               ps.cash_usd - Signed(o.side, o.avg_fill_price * o.filled_quantity)

\* C13: after stop() returns, running is false and the loop task has
\* terminated, and in every observable state the ledger holds whole fills:
\* cash and position of a fill are applied together, and every order the
\* loop stored as filled has its fill in the ledger.
C13_StopLeavesWholeFills ==
    [][C13_StoppedAtReturn /\ C13_FillsWhole]_vars
----------------------------------------------------------------------------
(* The tick                                                                 *)

\* the first run of a freshly constructed engine with the default risk
\* configuration: nothing traded, the ledger as start built it
FreshSession ==
    /\ nTasks = 1
    /\ nextUuid = 0
    /\ prisk = DefaultRiskConfig
    /\ ps.running
    /\ Carried(ps) = <<0, 0, 0, 0, 0>>
    /\ ps.high_watermark_usd = prisk.capital_base_usd * UsdUnits
    /\ ps.start_equity_usd = prisk.capital_base_usd * UsdUnits

\* C14: in a fresh session started with threshold 20 bps, the tick that
\* reads 100.3 after a tick that read 100 passes the risk check and submits
\* one sell market order; when the venue answers, position = -trade_qty,
\* cash has grown by fill price x trade_qty, and the next deviation is
\* measured from 100.3.
C14_EndToEndTrade ==
    [][/\ (/\ FreshSession
           /\ ps.threshold_bps = 200
           /\ tasks[1].px_prev = 1000
           /\ loop_price(1, 1003)) =>
              /\ tasks'[1].pc = "venue"
              /\ tasks'[1].side = "sell"
              /\ nSubmits' = nSubmits + 1
       /\ \A vpx \in VenuePrices :
            (/\ nextUuid = 0
             /\ ps.position_qty = 0
             /\ tasks[1].px = 1003
             /\ tasks[1].side = "sell"
             /\ loop_venue_return(1, vpx)) =>
                /\ DOMAIN orders' = {1}
                /\ orders'[1].side = "sell"
                /\ ps'.position_qty = -ps.trade_qty
                /\ ps'.cash_usd = ps.cash_usd +
                     (IF mode = "paper" THEN vpx ELSE 1003) * ps.trade_qty
                /\ tasks'[1].px_prev = 1003]_vars

\* C15: a failing collaborator call never terminates the loop: the tick in
\* which the venue call raises is skipped with the ledger unchanged and the
\* loop goes on to later ticks, so that whenever running is true the loop
\* task is alive.
C15_FailureSkipsTick ==
    [][/\ \A t \in TaskIds :
            loop_venue_raise(t) =>
               /\ tasks'[t].pc \in {"sleep", "price"}
               /\ ps' = ps
       /\ ps'.running =>
            /\ curTask' # 0
            /\ tasks'[curTask'].pc \in {"created", "price", "venue", "sleep"}]_vars
----------------------------------------------------------------------------
(* The order store, checked under SpecOrders                                *)

\* C16: a limit order submitted in paper mode is stored as filled, with
\* filled_quantity = quantity and avg_fill_price = last, exactly when
\* (buy and last <= limit) or (sell and last >= limit), and as new with
\* filled_quantity 0 otherwise; no later operation changes a stored order.
C16_LimitFillsAtSubmission ==
    [][/\ \A c \in Clients, last \in VenuePrices :
            (mode = "paper" /\ place_limit_return(c, last)) =>
               LET o == orders'[pm[c].id]
                   in_money == \/ pm[c].req.side = "buy" /\ last <= pm[c].price
                               \/ pm[c].req.side = "sell" /\ last >= pm[c].price
               IN  /\ o.type = "limit"
                   /\ o.side = pm[c].req.side
                   /\ o.quantity = pm[c].req.quantity
                   /\ o.price = pm[c].price
                   /\ o = pm'[c].result
                   /\ IF in_money
                      THEN /\ o.status = "filled"
                           /\ o.filled_quantity = o.quantity
                           /\ o.avg_fill_price = last
                      ELSE /\ o.status = "new"
                           /\ o.filled_quantity = 0
       /\ \A i \in DOMAIN orders :
            i \in DOMAIN orders' /\ orders'[i] = orders[i]]_vars

\* paper mode: one limit order filled with the last price at its limit,
\* another left new
C16_Witness ==
    /\ mode = "paper"
    /\ \E i, j \in DOMAIN orders :
          /\ orders[i].type = "limit"
          /\ orders[i].status = "filled"
          /\ orders[i].avg_fill_price = orders[i].price
          /\ orders[j].type = "limit"
          /\ orders[j].status = "new"

\* the store holds only orders whose status agrees with their fill
StoreConsistent(store) ==
    \A i \in DOMAIN store :
        /\ store[i].status = "filled" =>
              /\ store[i].filled_quantity = store[i].quantity
              /\ store[i].avg_fill_price # None
        /\ store[i].status = "new" => store[i].filled_quantity = 0

\* C17: when place_market returns, the order is stored filled at the
\* venue's quoted price for the requested quantity in paper mode, and new
\* with nothing filled in live mode; in every state of the store filled
\* means filled_quantity = quantity with avg_fill_price set and new means
\* filled_quantity = 0; stored orders are never removed, and get_order and
\* list_orders change nothing.
C17_OrderLifecycle ==
    [][/\ \A c \in Clients, px \in VenuePrices :
            place_market_return(c, px) =>
               LET o == orders'[nextUuid'] IN
               /\ o = pm'[c].result
               /\ o.type = "market"
               /\ o.side = pm[c].req.side
               /\ o.quantity = pm[c].req.quantity
               /\ IF mode = "paper"
                  THEN /\ o.status = "filled"
                       /\ o.filled_quantity = pm[c].req.quantity
                       /\ o.avg_fill_price = px
                  ELSE /\ o.status = "new"
                       /\ o.filled_quantity = 0
                       /\ o.avg_fill_price = None
       /\ StoreConsistent(orders')
       /\ DOMAIN orders \subseteq DOMAIN orders'
       /\ \A c \in Clients :
            (list_orders(c) \/ \E i \in 1..MaxSubmits : get_order(c, i)) =>
               orders' = orders]_vars

\* both lifecycles in one store: a market order new (live mode) or filled at
\* the quoted price (paper mode), beside a second stored order
C17_Witness ==
    \E i, j \in DOMAIN orders :
        /\ i # j
        /\ orders[i].type = "market"
        /\ \/ /\ mode = "paper"
              /\ orders[i].status = "filled"
              /\ orders[i].filled_quantity = 2
              /\ orders[i].avg_fill_price = 1003
              /\ orders[j].status = "new"
           \/ /\ mode = "live"
              /\ orders[i].status = "new"
              /\ orders[j].type = "limit"

\* the task goes on to another tick
GoesOn(t) == tasks'[t].pc \in {"sleep", "price"}

\* the fill price of the order the venue step of task t stores
FillPrice(t) ==
    IF orders'[nextUuid'].avg_fill_price = None
    THEN tasks[t].px ELSE orders'[nextUuid'].avg_fill_price

\* C18 as stated: the reference price is set to the current price on the
\* first tick (no trade on it), reset to the fill price on each fill, and
\* unchanged by any other tick.
C18_AsStated ==
    [][\A t \in TaskIds :
         /\ \A px \in FeedPrices \cup {None} :
               (loop_price(t, px) /\ GoesOn(t)) =>
                  tasks'[t].px_prev =
                     IF tasks[t].px_prev = None THEN px ELSE tasks[t].px_prev
         /\ \A px \in FeedPrices \cup {None} :
               (loop_price(t, px) /\ tasks[t].px_prev = None) =>
                  tasks'[t].pc # "venue"
         /\ \A vpx \in VenuePrices :
               (loop_venue_return(t, vpx) /\ GoesOn(t)) =>
                  tasks'[t].px_prev = FillPrice(t)]_vars


-----------------------------------------------------------------------------
(* The signal of a tick, on its own *)

\* prices around 100.0 USD, one step being 10 bps of it
SignalPrices == {1000 + i : i \in 0..MaxMove}

\* thresholds: 0 and multiples of 10 bps
SignalThresholds == {100 * k : k \in 0..MaxThr}

\* a session started with some threshold whose loop has made its first tick:
\* the price of that tick is the previous price of the next
SignalInit ==
    /\ RiskInit
    /\ ~rs.kill_switch
    /\ RouterInit
    /\ pm = [t \in TaskIds |-> IdlePm]
    /\ prisk = DefaultRiskConfig
    /\ curTask = 1
    /\ nTasks = 1
    /\ \E th \in SignalThresholds, px_prev \in SignalPrices :
         LET args == [symbol |-> BTCUSDT, interval_s |-> 1,
                      threshold_bps |-> th, trade_qty |-> 1]
             s0 == NewPaperState(DefaultPaperState, DefaultRiskConfig, args)
         IN  /\ api = [a \in Apis |-> IF a = "a1" THEN Returned(s0, FALSE)
                                      ELSE IdleApi]
             /\ ps = update_equity([s0 EXCEPT !.last_price = px_prev], px_prev)
             /\ tasks = [t \in TaskIds |->
                           IF t = 1 THEN [NoTask EXCEPT !.pc = "price",
                                                        !.px_prev = px_prev]
                           ELSE NoTask]

\* feed.get_price answers px: mark to market, and the signal is evaluated
loop_signal(t, px) ==
    /\ tasks[t].pc = "price"
    /\ ~tasks[t].cancel
    /\ ps' = update_equity([ps EXCEPT !.last_price = px,
                                      !.last_ts_ms = clock], px)
    /\ tasks' = [tasks EXCEPT
                    ![t].px = px,
                    ![t].side = Signal(px, tasks[t].px_prev, ps.threshold_bps),
                    ![t].pc = "signal"]
    /\ UNCHANGED <<prisk, curTask, nTasks, api>>
    /\ UNCHANGED <<riskVars, clock, routerVars, liveVars>>

SignalNext == \E t \in TaskIds, px \in SignalPrices : loop_signal(t, px)

SpecSignal == SignalInit /\ [][SignalNext]_vars

\* the candidate side as the specification states it: deviation_bps is
\* (price / reference - 1) x 10,000, the threshold is in units of 0.1 bps
StatedSide(px, ref, threshold_bps) ==
    LET dev == (px - ref) * BpsUnits
    IN  IF dev >= threshold_bps * ref THEN "sell"
        ELSE IF dev <= -(threshold_bps * ref) THEN "buy"
        ELSE "none"

\* C19: for every price, reference price and threshold >= 0, the candidate
\* side is sell when the deviation is at least +threshold, buy when it is at
\* most -threshold (and not sell), and there is no candidate otherwise.
C19_SignalDirection ==
    \A t \in TaskIds :
        tasks[t].pc = "signal" =>
            tasks[t].side =
                StatedSide(tasks[t].px, tasks[t].px_prev, ps.threshold_bps)

\* the reasons _risk_blocked gives for blocking
BlockReasons ==
    {"max_drawdown", "daily_loss_cap", "max_position", "leverage", "no_price"}

\* the tick task t makes on reading px has a candidate side and the risk
\* gate, asked after the mark to market, blocks it
BlockedTick(t, px) ==
    /\ loop_price(t, px)
    /\ Signal(px, tasks[t].px_prev, ps.threshold_bps) # "none"
    /\ risk_blocked(ps', prisk,
                    Signal(px, tasks[t].px_prev, ps.threshold_bps), px)
          \in BlockReasons

\* C20: on a tick where the risk gate blocks the candidate trade no order is
\* submitted to the router, cash, position, realized PnL and cum_day_loss are
\* unchanged, running is unchanged, and a running loop goes on to its next
\* tick.
C20_DenialIsNonEvent ==
    [][\A t \in TaskIds, px \in FeedPrices \cup {None} :
         BlockedTick(t, px) =>
            /\ nSubmits' = nSubmits
            /\ pm' = pm
            /\ orders' = orders
            /\ audit' = audit
            /\ ps'.cash_usd = ps.cash_usd
            /\ ps'.position_qty = ps.position_qty
            /\ ps'.realized_pnl_usd = ps.realized_pnl_usd
            /\ ps'.cum_day_loss_usd = ps.cum_day_loss_usd
            /\ ps'.running = ps.running
            /\ ps.running => GoesOn(t)
            /\ GoesOn(t) => tasks'[t].px_prev = px]_vars

\* a running loop has traded once, and its last tick had a candidate side
\* that the daily loss cap blocked, with room left for another order
C20_Witness ==
    \E t \in TaskIds :
        /\ tasks[t].pc \in {"sleep", "price"}
        /\ tasks[t].reason = "daily_loss_cap"
        /\ ps.running
        /\ ps.position_qty # 0
        /\ nSubmits = 1
        /\ nSubmits < MaxSubmits

-----------------------------------------------------------------------------
(* One session that is never stopped, under fair scheduling *)

\* one start, resets of the ledger, and the ticks of the loop; nothing calls
\* stop
TicksNext ==
    \/ \E a \in Apis, args \in StartArgs : nTasks = 0 /\ start_call(a, args)
    \/ \E a \in Apis : reset_accounting(a)
    \/ \E t \in TaskIds : loop_begin(t)
    \/ \E t \in TaskIds, px \in FeedPrices \cup {None} : loop_price(t, px)
    \/ \E t \in TaskIds, vpx \in VenuePrices : loop_venue_return(t, vpx)
    \/ \E t \in TaskIds : loop_venue_raise(t)
    \/ \E t \in TaskIds : loop_wake(t)

\* a step of the loop task: the event loop runs every task that is ready, the
\* Price Source answers, the venue call returns or raises, the sleep ends
LoopStep ==
    \/ \E t \in TaskIds : loop_begin(t)
    \/ \E t \in TaskIds, px \in FeedPrices \cup {None} : loop_price(t, px)
    \/ \E t \in TaskIds, vpx \in VenuePrices : loop_venue_return(t, vpx)
    \/ \E t \in TaskIds : loop_venue_raise(t)
    \/ \E t \in TaskIds : loop_wake(t)

SpecTicks == PaperSpecInit /\ [][TicksNext]_vars /\ WF_vars(LoopStep)

\* a tick of task t: the Price Source has answered
Tick(t) == \E px \in FeedPrices \cup {None} : loop_price(t, px)

\* on a tick without a price there is no signal evaluation and no order,
\* cash, position and equity are unchanged and a running loop goes on; a tick
\* with a price and a previous price whose candidate side passes the gate
\* submits the order
C21_SkipsTick ==
    [][\A t \in TaskIds :
         /\ loop_price(t, None) =>
               /\ nSubmits' = nSubmits
               /\ pm' = pm
               /\ orders' = orders
               /\ ps'.cash_usd = ps.cash_usd
               /\ ps'.position_qty = ps.position_qty
               /\ ps'.equity_usd = ps.equity_usd
               /\ ps.running => GoesOn(t) /\ tasks'[t].reason = "unset"
         /\ \A px \in FeedPrices :
               ( /\ loop_price(t, px)
                 /\ tasks[t].px_prev # None
                 /\ Signal(px, tasks[t].px_prev, ps.threshold_bps) # "none"
                 /\ risk_blocked(ps', prisk,
                       Signal(px, tasks[t].px_prev, ps.threshold_bps), px)
                      = "None" )
               => tasks'[t].pc = "venue"]_vars

\* a session that stays running has a loop that ticks again and again
C21_TicksForever ==
    \A t \in TaskIds :
        <>[](ps.running /\ curTask = t) => []<><<Tick(t)>>_vars

\* C21: a tick on which the Price Source answers unavailable evaluates no
\* signal, submits no order, leaves cash, position and equity unchanged and
\* goes on to the next tick; under fairness a loop that stays running ticks
\* infinitely often, and trades again once consecutive prices are available.
C21_MissingPrice == C21_SkipsTick /\ C21_TicksForever

-----------------------------------------------------------------------------
(* One session whose ledger and risk configuration the callers change *)

\* one start, then resets of the ledger, changes of the risk configuration
\* and status reads between the steps of the loop
GateNext ==
    \/ \E a \in Apis, args \in StartArgs : nTasks = 0 /\ start_call(a, args)
    \/ \E a \in Apis : reset_accounting(a)
    \/ \E a \in Apis, payload \in RiskPayloads : set_risk(a, payload)
    \/ \E a \in Apis : status(a)
    \/ \E t \in TaskIds : loop_begin(t)
    \/ \E t \in TaskIds, px \in FeedPrices \cup {None} : loop_price(t, px)
    \/ \E t \in TaskIds, vpx \in VenuePrices : loop_venue_return(t, vpx)
    \/ \E t \in TaskIds : loop_wake(t)

SpecGate == PaperSpecInit /\ [][GateNext]_vars

\* the tick task t makes on reading px has a candidate side, so that the
\* risk gate is asked
GateAsked(t, px) ==
    /\ loop_price(t, px)
    /\ Signal(px, tasks[t].px_prev, ps.threshold_bps) # "none"

\* C22: whenever the risk gate is asked, equity is cash + realized PnL +
\* position x the price read on this tick, the high watermark is not below
\* it, and the gate's answer is the one that state gives, whatever calls of
\* reset_accounting, set_risk and status came between the ticks.
C22_NoStaleEquity ==
    [][\A t \in TaskIds, px \in FeedPrices \cup {None} :
         GateAsked(t, px) =>
            /\ ps'.last_price = px
            /\ ps'.equity_usd = ps.cash_usd + ps.realized_pnl_usd
                                   + ps.position_qty * px
            /\ ps'.high_watermark_usd >= ps'.equity_usd
            /\ tasks'[t].reason =
                  risk_blocked(ps', prisk,
                     Signal(px, tasks[t].px_prev, ps.threshold_bps), px)]_vars

\* the gate has been asked on a tick with an open position, at a price that
\* is not the one the position was last marked at, after set_risk was called
C22_Witness ==
    \E t \in TaskIds :
        /\ tasks[t].reason # "unset"
        /\ tasks[t].pc \in {"sleep", "price", "venue"}
        /\ ps.position_qty # 0
        /\ nSubmits >= 1
        /\ orders[1].avg_fill_price # ps.last_price
        /\ prisk # DefaultRiskConfig

\* C23: in every state status() can show in which last_price is set, equity is
\* cash + realized PnL + position x last_price.
C23_EquityDerived ==
    Status.state.last_price # None =>
        Status.state.equity_usd =
            Status.state.cash_usd + Status.state.realized_pnl_usd
               + Status.state.position_qty * Status.state.last_price

\* the position the order task t has just decided on would lead to
NextPos(t) ==
    IF tasks'[t].side = "buy" THEN ps'.position_qty + ps'.trade_qty
    ELSE ps'.position_qty - ps'.trade_qty

\* C24: on every tick that submits an order, at the decision the notional of
\* the position after the order is within max_position_usd and, when leverage
\* is not allowed and equity is positive, within equity x max_leverage; the
\* drawdown from the high watermark is below the max-drawdown amount and
\* cum_day_loss is above minus the daily-loss-cap amount.
C24_NoOversizedDecision ==
    [][\A t \in TaskIds, px \in FeedPrices :
         (loop_price(t, px) /\ tasks'[t].pc = "venue") =>
            /\ nSubmits' = nSubmits + 1
            /\ Abs(NextPos(t) * px) <= prisk.max_position_usd * UsdUnits
            /\ (~prisk.allow_leverage /\ ps'.equity_usd > 0) =>
                  Abs(NextPos(t) * px) <= ps'.equity_usd * prisk.max_leverage
            /\ ps'.high_watermark_usd - ps'.equity_usd < max_drawdown_usd(prisk)
            /\ ps'.cum_day_loss_usd > -daily_loss_cap_usd(prisk)]_vars

\* with the position capped at 0 USD, an order that closes the open position
\* has been submitted
C24_Witness ==
    \E t \in TaskIds :
        /\ tasks[t].pc = "venue"
        /\ prisk.max_position_usd = 0
        /\ ps.position_qty # 0
        /\ ps.equity_usd > 0
        /\ nSubmits = 2

\* the accounting of the fill task t books when place_market returns
FillBooked(t, vpx) ==
    LET f == FillPrice(t)
        q == ps.trade_qty
    IN  loop_venue_return(t, vpx) =>
           /\ ps'.position_qty = ps.position_qty + Signed(tasks[t].side, q)
           /\ ps'.cash_usd = ps.cash_usd - Signed(tasks[t].side, q) * f
           /\ ps'.cash_usd + ps'.position_qty * f
                 = ps.cash_usd + ps.position_qty * f
           /\ ps'.realized_pnl_usd = ps.realized_pnl_usd

\* C25: a fill changes position by +trade_qty (buy) or -trade_qty (sell) and
\* cash by -fill_price x trade_qty or +fill_price x trade_qty, so that
\* cash + position x fill_price is what it was; it leaves realized PnL
\* alone; cum_day_loss is never positive and, but for reset_accounting, never
\* increases.
C25_NoDrift ==
    /\ [](ps.cum_day_loss_usd <= 0)
    /\ [][/\ \A t \in TaskIds, vpx \in VenuePrices : FillBooked(t, vpx)
          /\ \/ \E a \in Apis : reset_accounting(a)
             \/ ps'.cum_day_loss_usd <= ps.cum_day_loss_usd]_vars

\* two fills have been booked: position and cash are the sums of what the
\* two orders traded, and the day's figure after the second is above the
\* recorded cum_day_loss, which has stayed where it was
C25_Witness ==
    /\ nSubmits = 2
    /\ nextUuid = 2
    /\ orders[1].avg_fill_price # None
    /\ orders[2].avg_fill_price # None
    /\ ps.position_qty = Signed(orders[1].side, ps.trade_qty)
                            + Signed(orders[2].side, ps.trade_qty)
    /\ ps.cash_usd =
          - Signed(orders[1].side, ps.trade_qty) * orders[1].avg_fill_price
          - Signed(orders[2].side, ps.trade_qty) * orders[2].avg_fill_price
    /\ ps.cash_usd # 0
    /\ ps.cum_day_loss_usd
          < ps.equity_usd
              - Or(ps.start_equity_usd, prisk.capital_base_usd * UsdUnits)

-----------------------------------------------------------------------------
(* The HTTP control surface of the live run *)

\* the requests that read or change the live run
LiveRequests ==
    {"live_start", "live_stop", "live_flat", "live_position", "risk_summary"}

\* a client sends a request; its handler has not run yet
http_request(c, kind) ==
    /\ http[c].pc \in {"idle", "answered"}
    /\ http' = [http EXCEPT ![c] = [pc |-> "pending", kind |-> kind,
                                    resp |-> ""]]
    /\ UNCHANGED <<live, riskVars, clock, routerVars, paperVars>>

\* the handler of c's request runs and answers resp
Answered(c, resp) ==
    [http EXCEPT ![c].pc = "answered", ![c].resp = resp]

Handles(c, kind) == http[c].pc = "pending" /\ http[c].kind = kind

\* a live_start that does not look at the RiskEngine
live_start_Unchecked(c) ==
    /\ Handles(c, "live_start")
    /\ IF live.running
       THEN /\ http' = Answered(c, "Already running.")
            /\ UNCHANGED live
       ELSE /\ live' = [running |-> TRUE, flat |-> FALSE]
            /\ http' = Answered(c, "Live run started (skeleton).")
    /\ UNCHANGED <<riskVars, clock, routerVars, paperVars>>

\* live_start: the handlers never suspend while they hold _live_lock, so the
\* lock is free whenever one runs and the body is one step
live_start(c) ==
    /\ Handles(c, "live_start")
    /\ IF live.running
       THEN /\ http' = Answered(c, "Already running.")
            /\ UNCHANGED live
       ELSE IF rs.kill_switch \/ rs.trading_halted
       THEN /\ http' = Answered(c, "423")
            /\ UNCHANGED live
       ELSE /\ live' = [running |-> TRUE, flat |-> FALSE]
            /\ http' = Answered(c, "Live run started (skeleton).")
    /\ UNCHANGED <<riskVars, clock, routerVars, paperVars>>

live_stop(c) ==
    /\ Handles(c, "live_stop")
    /\ IF ~live.running
       THEN /\ http' = Answered(c, "Not running.")
            /\ UNCHANGED live
       ELSE /\ live' = [live EXCEPT !.running = FALSE]
            /\ http' = Answered(c, "Live run stopped (skeleton).")
    /\ UNCHANGED <<riskVars, clock, routerVars, paperVars>>

\* live_flat: risk.set_kill_switch(True, reason="api_flat"), then the two
\* globals; nothing in the handler suspends
live_flat(c) ==
    /\ Handles(c, "live_flat")
    /\ rs' = AfterKillSwitch(rs, TRUE, "api_flat")
    /\ hist' = [hist EXCEPT !.killArmed = TRUE, !.offCalled = FALSE,
                            !.resetCalled = FALSE]
    /\ lastOp' = "set_kill_switch"
    /\ live' = [running |-> FALSE, flat |-> TRUE]
    /\ http' = Answered(c, "KillSwitch engaged. Flatten requested.")
    /\ UNCHANGED <<params, clock, ret, nFills>>
    /\ UNCHANGED <<routerVars, paperVars>>

\* live_position answers with the two globals
live_position(c) ==
    /\ Handles(c, "live_position")
    /\ http' = Answered(c, IF live.running THEN "running"
                           ELSE IF live.flat THEN "flat" ELSE "idle")
    /\ UNCHANGED <<live, riskVars, clock, routerVars, paperVars>>

\* risk_summary answers with risk.summary(), which only reads
risk_summary(c) ==
    /\ Handles(c, "risk_summary")
    /\ http' = Answered(c, IF rs.kill_switch THEN "kill_switch"
                           ELSE IF rs.trading_halted THEN "halted" ELSE "ok")
    /\ UNCHANGED <<live, riskVars, clock, routerVars, paperVars>>

LiveNext ==
    \/ \E c \in HttpClients, kind \in LiveRequests : http_request(c, kind)
    \/ \E c \in HttpClients : live_start(c)
    \/ \E c \in HttpClients : live_stop(c)
    \/ \E c \in HttpClients : live_flat(c)
    \/ \E c \in HttpClients : live_position(c)
    \/ \E c \in HttpClients : risk_summary(c)

\* the application as main.py builds it: the RiskEngine with KILL_SWITCH
\* from the environment, the live run not started
LiveSpecInit ==
    /\ RiskInit
    /\ RouterInit
    /\ pm = [c \in Clients |-> IdlePm]
    /\ PaperInit

SpecLive == LiveSpecInit /\ [][LiveNext]_vars

\* C26: the live run is never marked running while the kill switch is
\* active: live_start answers 423 and changes nothing when kill_switch or
\* trading_halted is set, live_start on a running run changes nothing,
\* live_flat sets the kill switch and marks the run not running in one step,
\* and once the kill switch is set no live_start starts the run.
C26_NeverRunningUnderKill ==
    /\ [](live.running => ~rs.kill_switch)
    /\ [][\A c \in HttpClients :
            /\ (live_start(c) /\ live.running) => live' = live /\ rs' = rs
            /\ (live_start(c) /\ ~live.running
                  /\ (rs.kill_switch \/ rs.trading_halted)) =>
                     /\ http'[c].resp = "423"
                     /\ live' = live
                     /\ rs' = rs
            /\ live_flat(c) => rs'.kill_switch /\ ~live'.running
            /\ (live.flat /\ ~live'.flat) => ~rs.kill_switch
            /\ rs.kill_switch => rs'.kill_switch /\ ~live'.running]_vars

\* live_flat has been handled for one client and a live_start of the other
\* has been refused; the run is flat and not running
C26_Witness ==
    /\ live.flat
    /\ ~live.running
    /\ rs.kill_switch
    /\ \E c, d \in HttpClients :
          /\ c # d
          /\ http[c].kind = "live_flat" /\ http[c].pc = "answered"
          /\ http[d].kind = "live_start" /\ http[d].resp = "423"
====
